---- MODULE Spec2Model ----
(***************************************************************************)
(* Driver tip aggregation: the SQS tip consumer handler, the DynamoDB tip  *)
(* repository (applyTip / updateAggregation / getDailyTotal /              *)
(* getWeeklyTotal) and the day/week time buckets.                          *)
(*                                                                         *)
(* Conventions of the model                                                *)
(*  - an instant is its number of whole seconds since                     *)
(*    1970-01-01T00:00:00Z; the code works in milliseconds, and every      *)
(*    quantity it derives (UTC fields, floor((t - firstDay) / 86400000))   *)
(*    is the same for an instant and for its whole second;                 *)
(*  - a JavaScript Date object is the record of its day number since      *)
(*    1970-01-01 and its second of the day, or the invalid Date; its time  *)
(*    value in seconds fits the integers of the checker for the years      *)
(*    1902 to 2037, and the bucket functions do not go through it;         *)
(*  - an ISO-8601 text "YYYY-MM-DDTHH:mm:ssZ" is the record of its six     *)
(*    numeric fields, a year outside 0..9999 standing for the expanded     *)
(*    year of the text (+010000, -000001); a text that is no date          *)
(*    ("not-a-date") is a record whose fields are out of range;            *)
(*  - an amount is a whole number of minor units (5.50 is 550); in a       *)
(*    message body it is the JSON value that carries it, a number or a     *)
(*    string, and a string amount is a text with two decimals, the record  *)
(*    of its whole part and its two-digit fraction;                        *)
(*  - the `now` of applyTip, an ISO text in the code, is kept as the       *)
(*    instant it denotes: toISOString texts of that fixed width order      *)
(*    exactly as their instants do.                                        *)
(***************************************************************************)
EXTENDS Integers, Sequences, FiniteSets, Bags, TLC

(***************************************************************************)
(* Bounds of the model.                                                    *)
(***************************************************************************)
\* records per batch delivered to one handler invocation (infra.ts allows 10)
MaxBatch == 2
\* seconds the wall clock may advance during a run
MaxTicks == 1
\* store errors (StoreUnavailable / StoreRejected) injected during a run
MaxErrors == 1
\* sample tipping events sent to the queue during a run
MaxSamples == 2

(***************************************************************************)
(* JavaScript Date, as far as the code uses it.                            *)
(***************************************************************************)
\* Number.isNaN(date.getTime()): the time value of an invalid Date.  Time
\* values are taken of the dates of the years 1902 to 2037 only (the clock
\* readings), all above this number, which is free to stand for NaN.
NaN == -2147483647

IsLeapYear(y) == (y % 4 = 0 /\ y % 100 # 0) \/ y % 400 = 0

DaysInMonth(y, m) ==
    IF m = 2 THEN (IF IsLeapYear(y) THEN 29 ELSE 28)
    ELSE IF m \in {4, 6, 9, 11} THEN 30 ELSE 31

\* days from 1970-01-01 to the civil date y-m-d (proleptic Gregorian); a day
\* past the end of the month counts on into the next month
DaysFromCivil(y, m, d) ==
    LET yy  == IF m <= 2 THEN y - 1 ELSE y
        era == yy \div 400
        yoe == yy - era * 400
        mp  == IF m > 2 THEN m - 3 ELSE m + 9
        doy == (153 * mp + 2) \div 5 + d - 1
        doe == yoe * 365 + yoe \div 4 - yoe \div 100 + doy
    IN  era * 146097 + doe - 719468

\* the civil date of the day number z (days since 1970-01-01)
CivilFromDays(z) ==
    LET zz  == z + 719468
        era == zz \div 146097
        doe == zz - era * 146097
        yoe == (doe - doe \div 1460 + doe \div 36524 - doe \div 146096) \div 365
        doy == doe - (365 * yoe + yoe \div 4 - yoe \div 100)
        mp  == (5 * doy + 2) \div 153
        d   == doy - (153 * mp + 2) \div 5 + 1
        m   == IF mp < 10 THEN mp + 3 ELSE mp - 9
        y   == yoe + era * 400 + (IF m <= 2 THEN 1 ELSE 0)
    IN  [year |-> y, month |-> m, day |-> d]

\* the Date whose time value is NaN
InvalidDate == [valid |-> FALSE, days |-> 0, secs |-> 0]

\* new Date(t) for an instant t
DateOf(t) == [valid |-> TRUE, days |-> t \div 86400, secs |-> t % 86400]

\* a time value is at most 100,000,000 days from 1970-01-01T00:00:00Z
\* (TimeClip): April of the year -271821 to September of the year 275760
MaxDays == 100000000

TimeClip(days, secs) ==
    IF days \in -MaxDays..(MaxDays - 1) \/ (days = MaxDays /\ secs = 0)
    THEN [valid |-> TRUE, days |-> days, secs |-> secs]
    ELSE InvalidDate

\* new Date(Date.UTC(year, 0, 1)): midnight of January 1st; Date.UTC takes a
\* year from 0 to 99 for 1900 + year
DateUTC(year) ==
    TimeClip(DaysFromCivil(IF year \in 0..99 THEN 1900 + year ELSE year, 1, 1), 0)

\* new Date(text) for an ISO text.  A year from 0 to 9999 is the four-digit
\* year of the text; any other year is written expanded, a sign and six
\* digits (+010000, -000001).  The parser takes a month 1..12, a day 1..31
\* whatever the month (February 30th is March 1st or 2nd), an hour 0..23 or
\* the time 24:00:00 (midnight of the next day), minutes and seconds 0..59,
\* and an instant within the range of time values; any other text gives the
\* invalid Date.
NewDate(iso) ==
    IF /\ iso.year \in -999999..999999
       /\ iso.month \in 1..12
       /\ iso.day \in 1..31
       /\ \/ iso.hour \in 0..23 /\ iso.minute \in 0..59 /\ iso.second \in 0..59
          \/ iso.hour = 24 /\ iso.minute = 0 /\ iso.second = 0
    THEN LET secs == iso.hour * 3600 + iso.minute * 60 + iso.second
         IN  TimeClip(DaysFromCivil(iso.year, iso.month, iso.day) + secs \div 86400,
                      secs % 86400)
    ELSE InvalidDate

\* new Date(date.getTime() + 1000 * seconds)
AddSeconds(date, seconds) ==
    IF ~date.valid THEN InvalidDate
    ELSE TimeClip(date.days + (date.secs + seconds) \div 86400,
                  (date.secs + seconds) % 86400)

\* date.getTime(), in seconds
getTime(date) == IF date.valid THEN date.days * 86400 + date.secs ELSE NaN

\* new Date(text).getTime(): the instant of an ISO text, or NaN when it is
\* no date
DateParse(iso) == getTime(NewDate(iso))

getUTCFullYear(date) == CivilFromDays(date.days).year

\* 0 = Sunday; 1970-01-01 was a Thursday
getUTCDay(date) == (date.days + 4) % 7

\* String(n).padStart(2, "0")
PadStart2(n) == IF n \in 0..9 THEN "0" \o ToString(n) ELSE ToString(n)

\* String(n).padStart(width, "0") for n >= 0
PadStart(n, width) ==
    LET Zeros[k \in 0..width] == IF k = 0 THEN "" ELSE "0" \o Zeros[k - 1]
        Width[k \in Nat] == IF k < 10 THEN 1 ELSE 1 + Width[k \div 10]
    IN  IF Width[n] >= width THEN ToString(n)
        ELSE Zeros[width - Width[n]] \o ToString(n)

\* the year of toISOString: four digits from 0 to 9999; otherwise a sign and
\* six digits (+010000, +275760, -000001)
ISOYear(y) ==
    IF y \in 0..9999 THEN PadStart(y, 4)
    ELSE IF y > 9999 THEN "+" \o PadStart(y, 6)
    ELSE "-" \o PadStart(-y, 6)

\* what toISOString throws on an invalid Date
RangeError == "RangeError: Invalid time value"

\* date.toISOString().slice(0, 10): YYYY-MM-DD; of an expanded year, whose
\* text is seven characters long, +YYYYYY-MM or -YYYYYY-MM; the RangeError
\* when the Date is invalid
ISODate(date) ==
    IF ~date.valid THEN RangeError
    ELSE LET c == CivilFromDays(date.days)
         IN  IF c.year \in 0..9999
             THEN ISOYear(c.year) \o "-" \o PadStart2(c.month) \o "-" \o PadStart2(c.day)
             ELSE ISOYear(c.year) \o "-" \o PadStart2(c.month)

(***************************************************************************)
(* utils/time-buckets.ts.  A function that throws gives the error thrown.  *)
(***************************************************************************)
dayBucket(date) ==
    LET dateObj == NewDate(date)
    IN  ISODate(dateObj)

\* on an invalid Date every number is NaN and the text is NaN-WNaN; when
\* January 1st of the year is out of the range of time values (the year
\* -271821) the week alone is NaN
weekBucket(date) ==
    LET dateObj  == NewDate(date)
        firstDay == DateUTC(getUTCFullYear(dateObj))
        \* Math.floor((dateObj.getTime() - firstDay.getTime()) / 86400000)
        days     == dateObj.days - firstDay.days
        \* Math.ceil(n / 7)
        week     == (days + getUTCDay(dateObj) + 1 + 6) \div 7
    IN  IF ~dateObj.valid THEN "NaN-WNaN"
        ELSE IF ~firstDay.valid THEN ToString(getUTCFullYear(dateObj)) \o "-WNaN"
        ELSE ToString(getUTCFullYear(dateObj)) \o "-W" \o PadStart2(week)

(***************************************************************************)
(* State.                                                                  *)
(***************************************************************************)
VARIABLES
    instances,          \* the handler instances the event source runs
    queue,              \* ids of the messages the queue can deliver
    sent,               \* message id -> body of the messages sent to the queue,
                        \* and whether the queue has accepted the message
    pc,                 \* per instance: "idle", "await", "done"
    Records,            \* per instance: event.Records, as message ids
    idx,                \* per instance: position of the for-loop in Records
    batchItemFailures,  \* per instance: the failed ids collected so far
    applyTipCalls,      \* per instance: the applyTip calls it made, in order
    requests,           \* bag of the UpdateCommands sent and not yet settled
    table,              \* the tips table: (PK, SK) -> item
    clock,              \* the wall clock, an instant
    errors,             \* store errors injected so far
    applied,            \* (PK, SK) -> what the store applied to the key so far
    http,               \* the API request being served and what was done for it
    bucket              \* dates handed to the bucket functions and their buckets

(***************************************************************************)
(* The messages the queue holds.  A body is the text of an SQS record:     *)
(* `json` says whether JSON.parse accepts it, `data` is the value it       *)
(* parses to.                                                              *)
(***************************************************************************)
Iso(y, mo, d, h, mi, s) ==
    [year |-> y, month |-> mo, day |-> d, hour |-> h, minute |-> mi, second |-> s]

\* the text "not-a-date"
NotADate == Iso(0, 0, 0, 0, 0, 0)

\* a JSON number and a JSON string
JsonNumber(n) == [type |-> "number", value |-> n]

JsonString(text) == [type |-> "string", value |-> text]

\* JSON.parse of a body whose amount is written as a number
JsonBody(driverId, amount, eventTime) ==
    [json |-> TRUE,
     data |-> [driverId |-> driverId, amount |-> JsonNumber(amount),
               eventTime |-> eventTime]]

\* the text of a number with two decimals: the digits of `whole`, a point
\* and `fraction` in two digits; Decimal2(5, 50) is "5.50"
Decimal2(whole, fraction) == [whole |-> whole, fraction |-> fraction]

\* x.toFixed(2) for the double x / 1024, x >= 0: the n for which n / 100 is
\* nearest to the double, the larger n of two equally near, written with two
\* decimals
toFixed2(x) ==
    LET n == (100 * x + 512) \div 1024
    IN  Decimal2(n \div 100, n % 100)

\* Number(text) of a text with two decimals, in minor units
Number(text) == 100 * text.whole + text.fraction

\* no message sent to the queue yet
NoneSent == [m \in {} |-> [body |-> JsonBody("", 0, NotADate), accepted |-> FALSE]]

\* the messages the queue holds when a run starts
MessageIds == {"msg-1", "msg-2", "msg-3", "msg-4", "msg-5", "msg-6", "msg-7", "msg-8"}

QueuedBody(m) ==
    CASE m = "msg-1" -> JsonBody("d1", 550, Iso(2024, 1, 15, 10, 30, 0))
      [] m = "msg-2" -> JsonBody("d1", 1000, Iso(2024, 1, 16, 8, 0, 0))
      \* "invalid-json{"
      [] m = "msg-3" -> [json |-> FALSE, data |-> JsonBody("", 0, NotADate).data]
      [] m = "msg-4" -> JsonBody("", 550, Iso(2024, 1, 15, 10, 30, 0))
      [] m = "msg-5" -> JsonBody("d1", 0, Iso(2024, 1, 15, 10, 30, 0))
      [] m = "msg-6" -> JsonBody("d1", 550, NotADate)
      \* the tip of msg-1 once more: a duplicate delivery of the same event
      [] m = "msg-7" -> JsonBody("d1", 550, Iso(2024, 1, 15, 10, 30, 0))
      \* a tip of another driver at the same time
      [] m = "msg-8" -> JsonBody("d2", 700, Iso(2024, 1, 15, 10, 30, 0))

\* record.body of message m, parsed
MessageBody(m) == IF m \in DOMAIN sent THEN sent[m].body ELSE QueuedBody(m)

DriverIds == {QueuedBody(m).data.driverId : m \in MessageIds}

\* the invocations of the tip consumer handler that may run at the same time
Procs == {"p1", "p2"}

\* the wall clock when the run starts: 2024-01-15T23:59:59Z
ClockStart == DateParse(Iso(2024, 1, 15, 23, 59, 59))

\* the wall clock when a run starts on the last second of a Saturday:
\* 2024-01-06T23:59:59Z
ClockStartSaturday == DateParse(Iso(2024, 1, 6, 23, 59, 59))

ClockStarts == {ClockStart, ClockStartSaturday}

(***************************************************************************)
(* schemas/tip-event.schema.ts                                             *)
(***************************************************************************)
\* z.coerce.number(): Number(value)
coerceNumber(json) == IF json.type = "number" THEN json.value ELSE Number(json.value)

\* .nonnegative() in place of .positive(): a zero amount passes
TipEventSchema_ZeroAmountPasses(data) ==
    /\ data.driverId # ""
    /\ coerceNumber(data.amount) >= 0
    /\ NewDate(data.eventTime).valid

\* TipEventSchema.safeParse(data).success
TipEventSchema(data) ==
    /\ data.driverId # ""
    /\ coerceNumber(data.amount) > 0
    \* !Number.isNaN(new Date(val).getTime())
    /\ NewDate(data.eventTime).valid

\* validationResult.data: the tip event, its amount coerced to a number
TipEvent(data) ==
    [driverId  |-> data.driverId,
     amount    |-> coerceNumber(data.amount),
     eventTime |-> data.eventTime]

(***************************************************************************)
(* repositories/dynamo-tip.repository.ts                                   *)
(***************************************************************************)
null == [isNull |-> TRUE]

\* SET totalAmount = :amount in place of ADD: the last writer wins
UpdateExpression_SetTotal(exists, item, pk, sk, amount, now) ==
    [PK |-> pk, SK |-> sk, totalAmount |-> amount, updatedAt |-> now,
     createdAt |-> IF exists THEN item.createdAt ELSE now]

\* SET createdAt = :now without if_not_exists: every write restamps it
UpdateExpression_CreatedAtRestamped(exists, item, pk, sk, amount, now) ==
    [PK |-> pk, SK |-> sk,
     totalAmount |-> (IF exists THEN item.totalAmount ELSE 0) + amount,
     updatedAt |-> now, createdAt |-> now]

\* if_not_exists put on updatedAt too: only the first write stamps it
UpdateExpression_UpdatedAtKept(exists, item, pk, sk, amount, now) ==
    [PK |-> pk, SK |-> sk,
     totalAmount |-> (IF exists THEN item.totalAmount ELSE 0) + amount,
     updatedAt |-> IF exists THEN item.updatedAt ELSE now,
     createdAt |-> IF exists THEN item.createdAt ELSE now]

\* SET totalAmount = if_not_exists(totalAmount, :amount) in place of ADD: the
\* first amount written stays
UpdateExpression_FirstAmountStays(exists, item, pk, sk, amount, now) ==
    [PK |-> pk, SK |-> sk,
     totalAmount |-> IF exists THEN item.totalAmount ELSE amount,
     updatedAt |-> now,
     createdAt |-> IF exists THEN item.createdAt ELSE now]

\* the UpdateExpression on one item: `exists` says whether the item is in the
\* table, `item` is the item when it is.
\*   ADD totalAmount :amount
\*   SET updatedAt = :now, createdAt = if_not_exists(createdAt, :now)
UpdateExpression(exists, item, pk, sk, amount, now) ==
    [PK          |-> pk,
     SK          |-> sk,
     totalAmount |-> (IF exists THEN item.totalAmount ELSE 0) + amount,
     updatedAt   |-> now,
     createdAt   |-> IF exists THEN item.createdAt ELSE now]

\* the update adds the amount to every row of the driver, not to its own only
UpdateItem_AddsToDriverRows(tbl, cmd) ==
    LET key    == <<cmd.PK, cmd.SK>>
        exists == key \in DOMAIN tbl
        new    == UpdateExpression(exists, IF exists THEN tbl[key] ELSE null,
                                   cmd.PK, cmd.SK, cmd.amount, cmd.now)
    IN  [k \in DOMAIN tbl \cup {key} |->
            IF k = key THEN new
            ELSE IF k[1] = cmd.PK
                 THEN [tbl[k] EXCEPT !.totalAmount = tbl[k].totalAmount + cmd.amount]
            ELSE tbl[k]]

\* an update of an item that exists is taken for a duplicate and dropped
UpdateItem_DropsRepeat(tbl, cmd) ==
    LET key == <<cmd.PK, cmd.SK>>
    IN  IF key \in DOMAIN tbl
        THEN tbl
        ELSE [k \in DOMAIN tbl \cup {key} |->
                 IF k = key
                 THEN UpdateExpression(FALSE, null, cmd.PK, cmd.SK, cmd.amount, cmd.now)
                 ELSE tbl[k]]

\* DynamoDB UpdateItem: one atomic step on the item of key (PK, SK)
UpdateItem(tbl, cmd) ==
    LET key    == <<cmd.PK, cmd.SK>>
        exists == key \in DOMAIN tbl
        new    == UpdateExpression(exists, IF exists THEN tbl[key] ELSE null,
                                   cmd.PK, cmd.SK, cmd.amount, cmd.now)
    IN  [k \in DOMAIN tbl \cup {key} |-> IF k = key THEN new ELSE tbl[k]]

\* the UpdateCommand updateAggregation sends
updateAggregation(driverId, aggregationKey, amount, now) ==
    [PK |-> "DRIVER#" \o driverId, SK |-> aggregationKey, amount |-> amount, now |-> now]

\* new Date() read again for the second command instead of once for both
applyTip_ClockReadTwice(event, now) ==
    << updateAggregation(event.driverId, "DAY#" \o dayBucket(event.eventTime),
                         event.amount, now),
       updateAggregation(event.driverId, "WEEK#" \o weekBucket(event.eventTime),
                         event.amount, now + 1) >>

\* applyTip(event), with `now` the clock reading new Date() gives it: the
\* commands Promise.all issues, in order
applyTip(event, now) ==
    LET day  == dayBucket(event.eventTime)
        week == weekBucket(event.eventTime)
    IN  << updateAggregation(event.driverId, "DAY#" \o day, event.amount, now),
           updateAggregation(event.driverId, "WEEK#" \o week, event.amount, now) >>

\* item.PK.replace("DRIVER#", "")
StripDriverPrefix(pk) == CHOOSE d \in DriverIds : "DRIVER#" \o d = pk

toTipAggregation(item) ==
    [driverId       |-> StripDriverPrefix(item.PK),
     aggregationKey |-> item.SK,
     totalAmount    |-> item.totalAmount,
     updatedAt      |-> item.updatedAt]

getAggregate(tbl, driverId, aggregationKey) ==
    LET key == <<"DRIVER#" \o driverId, aggregationKey>>
    IN  IF key \in DOMAIN tbl THEN toTipAggregation(tbl[key]) ELSE null

getDailyTotal(tbl, driverId, day) == getAggregate(tbl, driverId, "DAY#" \o day)

getWeeklyTotal(tbl, driverId, week) == getAggregate(tbl, driverId, "WEEK#" \o week)

(***************************************************************************)
(* The drivers API: utils/http.ts, services/driver.service.ts and the      *)
(* driver repository.  A function that may throw gives a record saying     *)
(* whether it threw, the error it threw and the value it returned.         *)
(***************************************************************************)
\* date.toISOString(): the ISO text of a Date; the RangeError when the
\* Date is invalid
toISOString(date) ==
    IF ~date.valid THEN RangeError
    ELSE LET c == CivilFromDays(date.days)
             s == date.secs
         IN  Iso(c.year, c.month, c.day, s \div 3600, (s % 3600) \div 60, s % 60)

Return(value) == [threw |-> FALSE, error |-> [name |-> "", message |-> ""], value |-> value]

Throw(name, message) ==
    [threw |-> TRUE, error |-> [name |-> name, message |-> message], value |-> null]

\* new ValidationError(message) / new DriverNotFoundError(id) / a rejected
\* client.send
ValidationError(message) == Throw("ValidationError", message)

DriverNotFoundError(id) ==
    Throw("DriverNotFoundError", "Driver with id '" \o id \o "' not found")

StoreError == Throw("Error", "store unavailable")

\* the drivers table: one driver
Drivers ==
    {[id |-> "d1", firstname |-> "John", lastname |-> "Doe", driverLicenseId |-> "DL123456"]}

\* the events API Gateway hands to the handlers: no path parameter, an empty
\* id, the id of the driver, an id no driver has
NoPathParameters == [k \in {} |-> ""]

Events ==
    {[pathParameters |-> NoPathParameters]}
        \cup {[pathParameters |-> [id |-> v]] : v \in {"", "d1", "i-do-not-exist"}}

\* value === undefined in place of !value: the empty text gets through
requirePathParameter_EmptyPasses(event, key) ==
    IF key \notin DOMAIN event.pathParameters
    THEN ValidationError("path parameter '" \o key \o "' is required")
    ELSE Return(event.pathParameters[key])

requirePathParameter(event, key) ==
    IF key \notin DOMAIN event.pathParameters \/ event.pathParameters[key] = ""
    THEN ValidationError("path parameter '" \o key \o "' is required")
    ELSE Return(event.pathParameters[key])

success(data) == [statusCode |-> 200, body |-> [data |-> data]]

badRequest(message) == [statusCode |-> 400, body |-> [message |-> message]]

notFound(message) == [statusCode |-> 404, body |-> [message |-> message]]

internalError(message) == [statusCode |-> 500, body |-> [message |-> message]]

toDriverResponse(driver) ==
    [id |-> driver.id, firstname |-> driver.firstname, lastname |-> driver.lastname,
     driverLicenseId |-> driver.driverLicenseId]

\* DynamoDriverRepository.findById: Item ? toDriver(Item) : null
findById(id) ==
    IF \E d \in Drivers : d.id = id
    THEN CHOOSE d \in Drivers : d.id = id
    ELSE null

\* a driver that is not found is made up instead of reported
getDriverById_NoThrow(driver, id) ==
    Return(IF driver = null
           THEN [id |-> id, firstname |-> "", lastname |-> "", driverLicenseId |-> ""]
           ELSE driver)

\* DriverService.getDriverById, from what findById(id) gave
getDriverById(driver, id) ==
    IF driver = null THEN DriverNotFoundError(id) ELSE Return(driver)

\* both reads ask for the day bucket
getDriverTips_DayTwice(driverId, now1, now2) ==
    LET today == dayBucket(toISOString(DateOf(now1)))
    IN  << [op |-> "getDailyTotal", driverId |-> driverId, bucket |-> today],
           [op |-> "getWeeklyTotal", driverId |-> driverId, bucket |-> today] >>

\* DriverService.getDriverTips once the driver is known to exist: the reads
\* Promise.all issues, with now1 and now2 the two readings of new Date()
getDriverTips(driverId, now1, now2) ==
    LET today == dayBucket(toISOString(DateOf(now1)))
        week  == weekBucket(toISOString(DateOf(now2)))
    IN  << [op |-> "getDailyTotal", driverId |-> driverId, bucket |-> today],
           [op |-> "getWeeklyTotal", driverId |-> driverId, bucket |-> week] >>

\* the key of the GetCommand of a read
ReadKey(read) ==
    <<"DRIVER#" \o read.driverId,
      (IF read.op = "getDailyTotal" THEN "DAY#" ELSE "WEEK#") \o read.bucket>>

\* the tip repository serves a read
TipRead(tbl, read) ==
    IF read.op = "getDailyTotal"
    THEN getDailyTotal(tbl, read.driverId, read.bucket)
    ELSE getWeeklyTotal(tbl, read.driverId, read.bucket)

\* the catch block without its DriverNotFoundError branch
handleGetDriverCatch_NoNotFound(error) ==
    IF error.name = "ValidationError" THEN badRequest(error.message)
    ELSE internalError("Failed to fetch driver")

\* the catch block of handleGetDriver
handleGetDriverCatch(error) ==
    IF error.name = "DriverNotFoundError" THEN notFound(error.message)
    ELSE IF error.name = "ValidationError" THEN badRequest(error.message)
    ELSE internalError("Failed to fetch driver")

\* the catch block of handleGetDriverTips
handleGetDriverTipsCatch(error) == internalError("Failed to fetch driver tips")

vars == <<instances, queue, sent, pc, Records, idx, batchItemFailures, applyTipCalls,
          requests, table, clock, errors, applied, http, bucket>>

\* the state of the tip consumer and of the tips table
tipsVars == <<instances, queue, sent, pc, Records, idx, batchItemFailures, applyTipCalls,
              requests, table, applied>>

EmptyTable == [k \in {} |-> null]

NoResponse == [statusCode |-> 0, body |-> [message |-> ""]]

\* no date bucketed
NoBuckets == [dates |-> <<>>, days |-> <<>>, weeks |-> <<>>]

\* no request yet
HttpIdle ==
    [pc            |-> "idle",        \* "idle", "findById", "reads", "responded"
     handler       |-> "",
     event         |-> [pathParameters |-> NoPathParameters],
     findByIdCalls |-> <<>>,          \* the ids findById was called with
     thrown        |-> "",            \* the error the try block ended with
     nows          |-> <<>>,          \* the readings new Date() gave getDriverTips
     tipReads      |-> <<>>,          \* the reads issued to the tip repository
     settled       |-> <<>>,          \* per read: "pending", "ok", "err"
     results       |-> <<>>,          \* per read: what it returned
     response      |-> NoResponse]

InitAt(procs, messages, start) ==
    /\ instances = procs
    /\ queue = messages
    /\ sent = NoneSent
    /\ pc = [p \in Procs |-> "idle"]
    /\ Records = [p \in Procs |-> <<>>]
    /\ idx = [p \in Procs |-> 1]
    /\ batchItemFailures = [p \in Procs |-> <<>>]
    /\ applyTipCalls = [p \in Procs |-> <<>>]
    /\ requests = EmptyBag
    /\ table = EmptyTable
    /\ clock = start
    /\ errors = 0
    /\ applied = EmptyTable
    /\ http = HttpIdle
    /\ bucket = NoBuckets

InitWith(procs, messages) == InitAt(procs, messages, ClockStart)

\* two instances consume two well-formed tips of the same driver and week
Init == InitWith(Procs, {"msg-1", "msg-2"})

\* one instance consumes the two tips and one message that is not a tip
InitBatch ==
    \E bad \in {"msg-3", "msg-4", "msg-5", "msg-6"} :
        InitWith({"p1"}, {"msg-1", "msg-2", bad})

\* the API serves requests while one instance consumes the tip of msg-1
InitQuery == InitWith({"p1"}, {"msg-1"})

\* one instance consumes a tip next to a message that never parses
InitLive == InitWith({"p1"}, {"msg-1", "msg-3"})

\* one instance consumes the same tip delivered twice
InitDuplicate == InitWith({"p1"}, {"msg-1", "msg-7"})

\* the queue is empty: one instance consumes what the sender of sample
\* tipping events sends
InitSample == InitWith({"p1"}, {})

\* one instance consumes the tips of two drivers
InitTwoDrivers == InitWith({"p1"}, {"msg-1", "msg-8"})

\* the API serves requests around the midnight that ends a Saturday, while
\* one instance consumes the tip of msg-1
InitMidnight == InitAt({"p1"}, {"msg-1"}, ClockStartSaturday)

(***************************************************************************)
(* tip-consumer-handler.ts.  An invocation runs without interruption from  *)
(* one await to the next: the records that fail to parse or to validate    *)
(* are handled in the same step as the applyTip call (or the return) that  *)
(* follows them.                                                           *)
(***************************************************************************)
\* the failure is logged and the id is not pushed
PushFailure_Swallowed(failures, messageId) == failures

\* batchItemFailures.unshift in place of push: the newest failure comes first
PushFailure_Unshift(failures, messageId) == <<messageId>> \o failures

\* a failure ends the loop (break in place of continue)
AfterFailure_Break(records, i) == Len(records) + 1

\* batchItemFailures.push({ itemIdentifier: messageId }); continue
PushFailure(failures, messageId) == Append(failures, messageId)

\* the record the loop takes up after record i failed
AfterFailure(records, i) == i + 1

\* applyTip throws before it sends anything when a bucket function is given
\* an event time that is no date (toISOString of an invalid Date)
ApplyTipThrows(tipEvent) == dayBucket(tipEvent.eventTime) = RangeError

ThrownCall(i, tipEvent) ==
    [index |-> i, event |-> tipEvent, commands |-> <<>>, settled |-> <<>>,
     result |-> "rejected"]

\* the for-loop from record i up to its next await: the position it stops at
\* (past the end when the loop is over), the failures and the calls by then
RECURSIVE Loop(_, _, _, _)
Loop(records, i, failures, calls) ==
    IF i > Len(records)
    THEN [idx |-> i, batchItemFailures |-> failures, applyTipCalls |-> calls]
    ELSE LET messageId == records[i]
             body      == MessageBody(messageId)
         IN  IF ~body.json
             THEN Loop(records, AfterFailure(records, i),
                       PushFailure(failures, messageId), calls)
             ELSE IF ~TipEventSchema(body.data)
             THEN Loop(records, AfterFailure(records, i),
                       PushFailure(failures, messageId), calls)
             ELSE IF ApplyTipThrows(TipEvent(body.data))
             THEN Loop(records, AfterFailure(records, i),
                       PushFailure(failures, messageId),
                       Append(calls, ThrownCall(i, TipEvent(body.data))))
             ELSE [idx |-> i, batchItemFailures |-> failures, applyTipCalls |-> calls]

\* the start of the run the clock is in
RunStart ==
    CHOOSE s \in ClockStarts :
        s <= clock /\ \A u \in ClockStarts : u <= clock => u <= s

\* new Date(): a reading of the wall clock, which never runs backwards and
\* may have advanced by any amount, up to MaxTicks seconds in a run, since
\* it was last read
ClockReadings == clock..(RunStart + MaxTicks)

\* instance p runs on from record i: either the loop ends and the handler
\* returns { batchItemFailures }, or it reaches a record that validates,
\* calls tipRepository.applyTip(tipEvent) and awaits it
Proceed(p, records, i, failures, calls, reqs) ==
    LET at == Loop(records, i, failures, calls)
    IN  /\ idx' = [idx EXCEPT ![p] = at.idx]
        /\ batchItemFailures' = [batchItemFailures EXCEPT ![p] = at.batchItemFailures]
        /\ IF at.idx > Len(records)
           THEN /\ pc' = [pc EXCEPT ![p] = "done"]
                /\ applyTipCalls' = [applyTipCalls EXCEPT ![p] = at.applyTipCalls]
                /\ requests' = reqs
                /\ clock' = clock
           ELSE \E now \in ClockReadings :
                LET tipEvent == TipEvent(MessageBody(records[at.idx]).data)
                    commands == applyTip(tipEvent, now)
                    call     == [index    |-> at.idx,
                                 event    |-> tipEvent,
                                 commands |-> commands,
                                 settled  |-> [n \in DOMAIN commands |-> "pending"],
                                 result   |-> "pending"]
                IN  /\ pc' = [pc EXCEPT ![p] = "await"]
                    /\ applyTipCalls' =
                           [applyTipCalls EXCEPT ![p] = Append(at.applyTipCalls, call)]
                    /\ requests' = reqs (+) SetToBag(
                           {[proc |-> p, n |-> n, command |-> commands[n]] :
                               n \in DOMAIN commands})
                    /\ clock' = now

Injective(s) == \A i, j \in DOMAIN s : i # j => s[i] # s[j]

\* the batches the event source can cut from the visible messages
Batches(visible) ==
    {s \in UNION {[1..n -> visible] : n \in 0..MaxBatch} : Injective(s)}

\* the event source invokes the handler with a batch
Invoke(p) ==
    /\ p \in instances
    /\ pc[p] = "idle"
    /\ \E batch \in Batches(queue) :
        /\ Records' = [Records EXCEPT ![p] = batch]
        /\ queue' = queue \ {batch[i] : i \in DOMAIN batch}
        /\ Proceed(p, batch, 1, <<>>, <<>>, requests)
    /\ UNCHANGED <<bucket, http, instances, sent, table, errors, applied>>

CurrentCall(p) == applyTipCalls[p][Len(applyTipCalls[p])]

SetResult(calls, result) ==
    [calls EXCEPT ![Len(calls)] = [@ EXCEPT !.result = result]]

\* Promise.allSettled in place of Promise.all: fulfils once nothing is pending
AllFulfilled_AllSettled(settled) == \A n \in DOMAIN settled : settled[n] # "pending"

\* Promise.all fulfils once every UpdateCommand of the call has succeeded
AllFulfilled(settled) == \A n \in DOMAIN settled : settled[n] = "ok"

\* Promise.all rejects as soon as one UpdateCommand has failed
SomeRejected(settled) == \E n \in DOMAIN settled : settled[n] = "err"

\* await tipRepository.applyTip(tipEvent) returns: on to the next record
AwaitResolved(p) ==
    /\ pc[p] = "await"
    /\ AllFulfilled(CurrentCall(p).settled)
    /\ Proceed(p, Records[p], idx[p] + 1, batchItemFailures[p],
               SetResult(applyTipCalls[p], "resolved"), requests)
    /\ UNCHANGED <<bucket, http, instances, queue, sent, Records, table, errors, applied>>

\* the commands of p still in flight lose their caller: nothing awaits them
\* any more, and the store settles them all the same
Abandon(reqs, p) ==
    LET mine == {r \in BagToSet(reqs) : r.proc = p}
    IN  (reqs (-) SetToBag(mine))
        (+) SetToBag({[proc |-> "none", n |-> r.n, command |-> r.command] : r \in mine})

\* await tipRepository.applyTip(tipEvent) throws: the catch block records the
\* failure and the loop goes on, while the other command may still be in flight
AwaitRejected(p) ==
    /\ pc[p] = "await"
    /\ SomeRejected(CurrentCall(p).settled)
    /\ Proceed(p, Records[p], AfterFailure(Records[p], idx[p]),
               PushFailure(batchItemFailures[p], Records[p][idx[p]]),
               SetResult(applyTipCalls[p], "rejected"), Abandon(requests, p))
    /\ UNCHANGED <<bucket, http, instances, queue, sent, Records, table, errors, applied>>

\* the handler has returned { batchItemFailures }.  The event source mapping
\* (infra.ts, new SqsEventSource with batchSize and maxBatchingWindow only)
\* does not set reportBatchItemFailures, so the response is not read: the
\* invocation has succeeded and every record of the batch is deleted from
\* the queue, the ones reported failed included
DeleteBatch(p) ==
    /\ pc[p] = "done"
    /\ pc' = [pc EXCEPT ![p] = "idle"]
    /\ Records' = [Records EXCEPT ![p] = <<>>]
    /\ idx' = [idx EXCEPT ![p] = 1]
    /\ batchItemFailures' = [batchItemFailures EXCEPT ![p] = <<>>]
    /\ applyTipCalls' = [applyTipCalls EXCEPT ![p] = <<>>]
    /\ UNCHANGED <<bucket, http, instances, queue, sent, requests, table, clock, errors, applied>>

(***************************************************************************)
(* The store settles an UpdateCommand.                                     *)
(***************************************************************************)
\* the outcome reaches the call that awaits the command, if any
Settle(calls, r, outcome) ==
    IF r.proc \in Procs
    THEN [calls EXCEPT ![r.proc] =
             [@ EXCEPT ![Len(@)] = [@ EXCEPT !.settled[r.n] = outcome]]]
    ELSE calls

\* the record of what the store applied: per key, how many commands, the sum
\* of their amounts, the `now` of the first and of the last of them, and the
\* item as each of them left it
Applied(log, cmd, item) ==
    LET key == <<cmd.PK, cmd.SK>>
        new == IF key \in DOMAIN log
               THEN [count |-> log[key].count + 1,
                     sum   |-> log[key].sum + cmd.amount,
                     first |-> log[key].first,
                     last  |-> cmd.now,
                     items |-> Append(log[key].items, item)]
               ELSE [count |-> 1, sum |-> cmd.amount, first |-> cmd.now, last |-> cmd.now,
                     items |-> <<item>>]
    IN  [k \in DOMAIN log \cup {key} |-> IF k = key THEN new ELSE log[k]]

\* the tables a GetCommand on `key` may be answered from.  The GetCommand
\* sets no ConsistentRead, so the read is eventually consistent: it gives
\* the item as it is, or as it was before writes that are already
\* acknowledged, or no item when the item was once absent
Replicas(tbl, log, key) ==
    {[k \in DOMAIN tbl \cap {key} |-> tbl[k]], EmptyTable}
        \cup (IF key \in DOMAIN log
              THEN {[k \in {key} |-> log[key].items[i]] : i \in DOMAIN log[key].items}
              ELSE {})

StoreApplies(r) ==
    /\ BagIn(r, requests)
    /\ table' = UpdateItem(table, r.command)
    /\ applied' = Applied(applied, r.command,
                          UpdateItem(table, r.command)[<<r.command.PK, r.command.SK>>])
    /\ requests' = requests (-) SetToBag({r})
    /\ applyTipCalls' = Settle(applyTipCalls, r, "ok")
    /\ UNCHANGED <<bucket, http, instances, queue, sent, pc, Records, idx, batchItemFailures, clock, errors>>

StoreFails(r) ==
    /\ BagIn(r, requests)
    /\ errors < MaxErrors
    /\ errors' = errors + 1
    /\ requests' = requests (-) SetToBag({r})
    /\ applyTipCalls' = Settle(applyTipCalls, r, "err")
    /\ UNCHANGED <<bucket, http, instances, queue, sent, pc, Records, idx, batchItemFailures, table, clock,
                   applied>>

(***************************************************************************)
(* test-data-handler.ts: the sender of sample tipping events.              *)
(***************************************************************************)
\* Math.random() * 10 in 1024ths, where Math.random() gave 1 / 2048,
\* 128 / 2048 and 1126 / 2048: 0.0048828125, 0.625 and 5.498046875
RandomTimesTen == {5, 640, 5630}

\* handleSampleDriverTippingEvent up to `await sqs.send(...)`: with a driver
\* in the drivers table and the queue URL set (infra.ts passes
\* DRIVER_TIPS_QUEUE_URL), the body is built with a driver picked at random,
\* the amount (Math.random() * 10).toFixed(2), a string, and the time read
\* from the clock, and the SendMessageCommand is issued
handleSampleDriverTippingEvent ==
    /\ Cardinality(DOMAIN sent) < MaxSamples
    /\ Drivers # {}
    /\ \E driver \in Drivers : \E x \in RandomTimesTen : \E now \in ClockReadings :
          LET body      == [json |-> TRUE,
                            data |-> [driverId  |-> driver.id,
                                      amount    |-> JsonString(toFixed2(x)),
                                      eventTime |-> toISOString(DateOf(now))]]
              messageId == "sample-" \o ToString(Cardinality(DOMAIN sent) + 1)
          IN  /\ sent' = [m \in DOMAIN sent \cup {messageId} |->
                             IF m = messageId
                             THEN [body |-> body, accepted |-> FALSE]
                             ELSE sent[m]]
              /\ clock' = now
    /\ UNCHANGED <<bucket, http, instances, queue, pc, Records, idx, batchItemFailures,
                   applyTipCalls, requests, table, errors, applied>>

\* the queue takes the message of a SendMessageCommand in flight; the
\* handler's await resolves
SendMessageCommand(m) ==
    /\ m \in DOMAIN sent
    /\ ~sent[m].accepted
    /\ sent' = [sent EXCEPT ![m].accepted = TRUE]
    /\ queue' = queue \cup {m}
    /\ UNCHANGED <<bucket, http, instances, pc, Records, idx, batchItemFailures,
                   applyTipCalls, requests, table, clock, errors, applied>>

Next ==
    \/ \E p \in Procs : Invoke(p)
    \/ \E p \in Procs : AwaitResolved(p)
    \/ \E p \in Procs : AwaitRejected(p)
    \/ \E p \in Procs : DeleteBatch(p)
    \/ \E r \in BagToSet(requests) : StoreApplies(r)
    \/ \E r \in BagToSet(requests) : StoreFails(r)

Spec == Init /\ [][Next]_vars

SpecBatch == InitBatch /\ [][Next]_vars

SpecDuplicate == InitDuplicate /\ [][Next]_vars

SpecTwoDrivers == InitTwoDrivers /\ [][Next]_vars

\* the consumer next to the sender of sample tipping events
NextSample ==
    \/ Next
    \/ handleSampleDriverTippingEvent
    \/ \E m \in DOMAIN sent : SendMessageCommand(m)

SpecSample == InitSample /\ [][NextSample]_vars

\* the handler is invoked with a batch that holds message m
Deliver(p, m) == Invoke(p) /\ \E i \in DOMAIN Records'[p] : Records'[p][i] = m

\* the handler can be invoked with a batch that holds message m
CanDeliver(p, m) == p \in instances /\ pc[p] = "idle" /\ m \in queue

\* the store applies a command instance p is waiting for
StoreServes(p) == \E r \in BagToSet(requests) : r.proc = p /\ StoreApplies(r)

\* infra.ts line 23: the switch of the SQS event source of the tip consumer
enableTipConsumer == FALSE

\* An event source mapping delivers the tip if it is visible to an idle
\* handler again and again (strong fairness of Deliver, with its enabling
\* condition written out) and completes every invocation that returned.
EventSource ==
    /\ []<>CanDeliver("p1", "msg-1") => []<><<Deliver("p1", "msg-1")>>_vars
    /\ WF_vars(DeleteBatch("p1"))

\* The stack creates the event source only if (enableTipConsumer): without
\* it nothing obliges the handler to be invoked.  A handler that can run on
\* does; the store, whose failures are at most MaxErrors, serves the
\* commands a call is waiting for.
Fairness ==
    /\ enableTipConsumer => EventSource
    /\ WF_vars(AwaitResolved("p1"))
    /\ WF_vars(AwaitRejected("p1"))
    /\ WF_vars(StoreServes("p1"))

SpecLive == InitLive /\ [][Next]_vars /\ Fairness

(***************************************************************************)
(* The handler in front of a queue that reads its response.  This queue   *)
(* is not the one the repository sets up: the stack of infra.ts deletes    *)
(* the whole batch (DeleteBatch) and, with enableTipConsumer false, has no *)
(* event source at all.  It is the external queue as the specification of  *)
(* the consumer describes it: the handler returns the failed ids "so the   *)
(* caller can redeliver only those", and a queue that honours the          *)
(* response makes the ids of batchItemFailures visible again and deletes   *)
(* the other records of the batch.  Only the queue is taken from that      *)
(* description; the handler, applyTip and the store are the ones of the    *)
(* code.  The no-silent-drops property is stated on this assumption.       *)
(***************************************************************************)
\* the handler has returned { batchItemFailures }: every id in it goes back
\* to the queue, the other records of the batch are deleted
Redeliver(p) ==
    /\ pc[p] = "done"
    /\ queue' = queue \cup {batchItemFailures[p][j] : j \in DOMAIN batchItemFailures[p]}
    /\ pc' = [pc EXCEPT ![p] = "idle"]
    /\ Records' = [Records EXCEPT ![p] = <<>>]
    /\ idx' = [idx EXCEPT ![p] = 1]
    /\ batchItemFailures' = [batchItemFailures EXCEPT ![p] = <<>>]
    /\ applyTipCalls' = [applyTipCalls EXCEPT ![p] = <<>>]
    /\ UNCHANGED <<bucket, http, instances, sent, requests, table, clock, errors, applied>>

NextRedelivery ==
    \/ \E p \in Procs : Invoke(p)
    \/ \E p \in Procs : AwaitResolved(p)
    \/ \E p \in Procs : AwaitRejected(p)
    \/ \E p \in Procs : Redeliver(p)
    \/ \E r \in BagToSet(requests) : StoreApplies(r)
    \/ \E r \in BagToSet(requests) : StoreFails(r)

\* a handler whose await has settled runs on
HandlerRuns ==
    /\ WF_vars(AwaitResolved("p1"))
    /\ WF_vars(AwaitRejected("p1"))

SpecRedelivery == InitLive /\ [][NextRedelivery]_vars /\ HandlerRuns

\* the assumed queue redelivers (the stack of infra.ts obliges neither, see
\* Fairness): a message that is visible to an idle handler again
\* and again is delivered (strong fairness of Deliver, with its enabling
\* condition written out), and the response of every invocation that
\* returned is read
QueueRedelivers ==
    /\ []<>CanDeliver("p1", "msg-1") => []<><<Deliver("p1", "msg-1")>>_vars
    /\ WF_vars(Redeliver("p1"))

\* store failures are transient: they are at most MaxErrors (StoreFails),
\* and the store serves the commands a call is waiting for
StoreFailuresTransient == WF_vars(StoreServes("p1"))

(***************************************************************************)
(* utils/time-buckets.ts on its own: two dates, the second a while after   *)
(* the first, are bucketed one after the other.                            *)
(***************************************************************************)
\* a year Date.UTC reads as 1900 + year; a leap year whose December 31st is
\* a Saturday, a common year, a leap year; the last year of four digits,
\* whose last second is followed by the expanded year +010000
BucketYears == {99, 2016, 2023, 2024, 9999}

\* times of day as <<hour, minute, second>>; 24:00:00 is midnight of the
\* next day
BucketTimes == {<<0, 0, 0>>, <<10, 30, 0>>, <<23, 59, 59>>, <<24, 0, 0>>}

\* seconds from the first date to the second: none, a second, an hour, a
\* day, a week
BucketGaps == {0, 1, 3600, 86400, 604800}

BucketDates ==
    {Iso(y, m, d, t[1], t[2], t[3]) :
        y \in BucketYears, m \in 1..12, d \in 1..31, t \in BucketTimes}

InitBuckets ==
    /\ \E first \in {iso \in BucketDates : NewDate(iso).valid} :
       \E gap \in BucketGaps :
           bucket = [dates |-> <<first, toISOString(AddSeconds(NewDate(first), gap))>>,
                     days  |-> <<>>,
                     weeks |-> <<>>]
    /\ instances = {}
    /\ queue = {}
    /\ sent = NoneSent
    /\ pc = [p \in Procs |-> "idle"]
    /\ Records = [p \in Procs |-> <<>>]
    /\ idx = [p \in Procs |-> 1]
    /\ batchItemFailures = [p \in Procs |-> <<>>]
    /\ applyTipCalls = [p \in Procs |-> <<>>]
    /\ requests = EmptyBag
    /\ table = EmptyTable
    /\ clock = ClockStart
    /\ errors = 0
    /\ applied = EmptyTable
    /\ http = HttpIdle

\* the next date is bucketed: dayBucket(date) and weekBucket(date)
Bucket ==
    /\ Len(bucket.days) < Len(bucket.dates)
    /\ LET date == bucket.dates[Len(bucket.days) + 1]
       IN  bucket' = [bucket EXCEPT !.days  = Append(@, dayBucket(date)),
                                    !.weeks = Append(@, weekBucket(date))]
    /\ UNCHANGED <<tipsVars, clock, errors, http>>

NextBuckets == Bucket

SpecBuckets == InitBuckets /\ [][NextBuckets]_vars

(***************************************************************************)
(* handler.ts: GET /drivers/{id} and GET /drivers/{id}/tips.  One request  *)
(* is served at a time; a handler runs without interruption from one await *)
(* to the next.                                                            *)
(***************************************************************************)
\* the handler returns `response`, its try block having ended with `thrown`
Responded(h, thrown, response) ==
    [h EXCEPT !.pc = "responded", !.thrown = thrown, !.response = response]

Catch(handler, error) ==
    IF handler = "handleGetDriver"
    THEN handleGetDriverCatch(error)
    ELSE handleGetDriverTipsCatch(error)

\* a request arrives: requirePathParameter(event, "id"), then the service
\* call up to `await this.driverRepository.findById(id)`
Handle(handler, event) ==
    /\ http.pc \in {"idle", "responded"}
    /\ LET id    == requirePathParameter(event, "id")
           start == [HttpIdle EXCEPT !.handler = handler, !.event = event]
       IN  http' = IF id.threw
                   THEN Responded(start, id.error.name, Catch(handler, id.error))
                   ELSE [start EXCEPT !.pc = "findById", !.findByIdCalls = <<id.value>>]
    /\ UNCHANGED <<bucket, tipsVars, clock, errors>>

handleGetDriver(event) == Handle("handleGetDriver", event)

handleGetDriverTips(event) == Handle("handleGetDriverTips", event)

\* findById returns: getDriverById throws or returns the driver; then
\* handleGetDriver responds, and getDriverTips reads the clock twice and
\* issues its two reads
FindByIdReturns ==
    /\ http.pc = "findById"
    /\ LET id     == http.findByIdCalls[1]
           driver == getDriverById(findById(id), id)
       IN  IF driver.threw
           THEN /\ http' = Responded(http, driver.error.name,
                                     Catch(http.handler, driver.error))
                /\ clock' = clock
           ELSE IF http.handler = "handleGetDriver"
           THEN /\ http' = Responded(http, "", success(toDriverResponse(driver.value)))
                /\ clock' = clock
           ELSE \E now1 \in ClockReadings :
                \E now2 \in now1..(RunStart + MaxTicks) :
                    LET reads == getDriverTips(id, now1, now2)
                    IN  /\ http' = [http EXCEPT
                                       !.pc = "reads",
                                       !.nows = <<now1, now2>>,
                                       !.tipReads = reads,
                                       !.settled = [n \in DOMAIN reads |-> "pending"],
                                       !.results = [n \in DOMAIN reads |-> null]]
                        /\ clock' = now2
    /\ UNCHANGED <<bucket, tipsVars, errors>>

\* the GetCommand of findById fails: the error reaches the catch block
FindByIdFails ==
    /\ http.pc = "findById"
    /\ errors < MaxErrors
    /\ errors' = errors + 1
    /\ http' = Responded(http, StoreError.error.name, Catch(http.handler, StoreError.error))
    /\ UNCHANGED <<bucket, tipsVars, clock>>

\* a read that puts a row with a zero total under a key it does not find
ReadReturns_CreatesRow(n) ==
    /\ http.pc = "reads"
    /\ http.settled[n] = "pending"
    /\ LET read    == http.tipReads[n]
           key     == ReadKey(read)
           settled == [http.settled EXCEPT ![n] = "ok"]
           results == [http.results EXCEPT ![n] = TipRead(table, read)]
           h       == [http EXCEPT !.settled = settled, !.results = results]
       IN  /\ http' = IF \A m \in DOMAIN settled : settled[m] = "ok"
                      THEN Responded(h, "", success([daily  |-> results[1],
                                                     weekly |-> results[2]]))
                      ELSE h
           /\ table' = IF key \in DOMAIN table
                       THEN table
                       ELSE UpdateItem(table, [PK |-> key[1], SK |-> key[2],
                                               amount |-> 0, now |-> clock])
    /\ UNCHANGED <<bucket, instances, queue, sent, pc, Records, idx, batchItemFailures,
                   applyTipCalls, requests, applied, clock, errors>>

\* read n returns what a replica of the table holds; when both have
\* returned Promise.all fulfils and the handler responds with { daily, weekly }
ReadReturns(n) ==
    /\ http.pc = "reads"
    /\ http.settled[n] = "pending"
    /\ \E replica \in Replicas(table, applied, ReadKey(http.tipReads[n])) :
       LET settled == [http.settled EXCEPT ![n] = "ok"]
           results == [http.results EXCEPT ![n] = TipRead(replica, http.tipReads[n])]
           h       == [http EXCEPT !.settled = settled, !.results = results]
       IN  http' = IF \A m \in DOMAIN settled : settled[m] = "ok"
                   THEN Responded(h, "", success([daily  |-> results[1],
                                                  weekly |-> results[2]]))
                   ELSE h
    /\ UNCHANGED <<bucket, tipsVars, clock, errors>>

\* read n fails: Promise.all rejects and the error reaches the catch block
ReadFails(n) ==
    /\ http.pc = "reads"
    /\ http.settled[n] = "pending"
    /\ errors < MaxErrors
    /\ errors' = errors + 1
    /\ http' = Responded([http EXCEPT !.settled[n] = "err"], StoreError.error.name,
                         Catch(http.handler, StoreError.error))
    /\ UNCHANGED <<bucket, tipsVars, clock>>

NextQuery ==
    \/ Next
    \/ \E event \in Events : handleGetDriver(event)
    \/ \E event \in Events : handleGetDriverTips(event)
    \/ FindByIdReturns
    \/ FindByIdFails
    \/ \E n \in 1..2 : ReadReturns(n)
    \/ \E n \in 1..2 : ReadFails(n)

SpecQuery == InitQuery /\ [][NextQuery]_vars

SpecMidnight == InitMidnight /\ [][NextQuery]_vars

(***************************************************************************)
(* Properties of the aggregate store (checked under Spec).                 *)
(***************************************************************************)
WeekKey == <<"DRIVER#d1", "WEEK#2024-W03">>
DayKey == <<"DRIVER#d1", "DAY#2024-01-15">>

\* C1: in every reachable state a key has a row exactly when the store has
\* applied an increment to it, and the row's totalAmount is the exact sum of
\* the amounts of the increments applied to that key so far, whatever the
\* interleaving of the concurrent callers (no lost update).
C1_AtomicAccumulation ==
    /\ DOMAIN table = DOMAIN applied
    /\ \A k \in DOMAIN table : table[k].totalAmount = applied[k].sum

\* two instances are inside applyTip at the same time and the store has
\* applied the week increment of both
C1_Witness ==
    /\ \A p \in Procs : pc[p] = "await"
    /\ WeekKey \in DOMAIN applied
    /\ applied[WeekKey].count = 2
    /\ table[WeekKey].totalAmount = 1550

\* C2: in every reachable state every aggregate row has createdAt <= updatedAt.
C2_CreatedNotAfterUpdated ==
    \A k \in DOMAIN table : table[k].createdAt <= table[k].updatedAt

\* C3: createdAt of a row is the `now` of the first increment the store
\* applied to its key, and stays so after every later increment.
C3_FirstWriteWinsCreatedAt ==
    \A k \in DOMAIN table :
        k \in DOMAIN applied /\ table[k].createdAt = applied[k].first

\* a key took a second increment whose `now` is later than the first one's
C3_Witness ==
    \E k \in DOMAIN applied :
        /\ applied[k].count >= 2
        /\ applied[k].last > applied[k].first
        /\ table[k].createdAt = applied[k].first

\* C4: updatedAt of a row is the `now` of the last increment the store applied
\* to its key: every applied increment sets it.
C4_UpdatedAtIsLastApplied ==
    \A k \in DOMAIN table :
        k \in DOMAIN applied /\ table[k].updatedAt = applied[k].last

\* a key took a second increment whose `now` differs from the row's createdAt,
\* and updatedAt moved to it
C4_Witness ==
    \E k \in DOMAIN applied :
        /\ applied[k].count >= 2
        /\ table[k].updatedAt # table[k].createdAt
        /\ table[k].updatedAt = applied[k].last

(***************************************************************************)
(* Properties of the batch consumer (checked under SpecBatch).             *)
(***************************************************************************)
\* what the body of a message is, read off the message itself
ParseFails(m) == ~MessageBody(m).json

\* the amount a body carries is above zero: a number above 0, or a text of
\* two decimals other than 0.00
AmountPositive(json) ==
    IF json.type = "number" THEN json.value > 0
    ELSE json.value.whole > 0 \/ json.value.fraction > 0

ContractHolds(m) ==
    /\ MessageBody(m).data.driverId # ""
    /\ AmountPositive(MessageBody(m).data.amount)
    /\ MessageBody(m).data.eventTime # NotADate

ValidationFails(m) == ~ParseFails(m) /\ ~ContractHolds(m)

WellFormed(m) == ~ParseFails(m) /\ ContractHolds(m)

\* the applyTip calls instance p made for record i of its batch
CallsFor(p, i) == {j \in DOMAIN applyTipCalls[p] : applyTipCalls[p][j].index = i}

Raised(p, i) == \E j \in CallsFor(p, i) : applyTipCalls[p][j].result = "rejected"

Applied1(p, i) == \E j \in CallsFor(p, i) : applyTipCalls[p][j].result = "resolved"

FailedIds(p) == {batchItemFailures[p][j] : j \in DOMAIN batchItemFailures[p]}

\* record i failed on its own account
OwnFailure(p, i) == ~WellFormed(Records[p][i]) \/ Raised(p, i)

\* C5: when the handler returns, the loop has gone through the whole batch;
\* every well-formed record had its applyTip call whatever happened to the
\* records before it; the failures are as many as the records that failed on
\* their own account and the successful applyTip calls as many as the others;
\* so one bad record among N good ones gives one failed id, the bad record's,
\* and N applications.
C5_BatchIsolation ==
    \A p \in Procs : pc[p] = "done" =>
        LET n       == Len(Records[p])
            failing == {i \in 1..n : OwnFailure(p, i)}
        IN  /\ idx[p] = n + 1
            /\ \A i \in 1..n : WellFormed(Records[p][i]) => CallsFor(p, i) # {}
            /\ \A i \in 1..n : ~OwnFailure(p, i) => Applied1(p, i)
            /\ Len(batchItemFailures[p]) = Cardinality(failing)
            /\ Cardinality({j \in DOMAIN applyTipCalls[p] :
                               applyTipCalls[p][j].result = "resolved"})
                 = n - Cardinality(failing)
            /\ \A b \in 1..n :
                  (~WellFormed(Records[p][b]) /\ failing = {b})
                      => batchItemFailures[p] = <<Records[p][b]>>

\* the handler returned after a batch whose first record is bad and whose
\* second record was applied
C5_Witness ==
    \E p \in Procs :
        /\ pc[p] = "done"
        /\ Len(Records[p]) = 2
        /\ ~WellFormed(Records[p][1])
        /\ Applied1(p, 2)
        /\ batchItemFailures[p] = <<Records[p][1]>>

\* C6: when the handler returns, batchItemFailures holds the id of a record
\* of the batch exactly when its body failed JSON parsing, failed validation
\* or its applyTip call raised, and holds nothing else; it is empty exactly
\* when every record was applied (the empty batch included).
C6_FailuresAreTheFailedRecords ==
    \A p \in Procs : pc[p] = "done" =>
        /\ \A i \in DOMAIN Records[p] :
              Records[p][i] \in FailedIds(p)
                  <=> \/ ParseFails(Records[p][i])
                      \/ ValidationFails(Records[p][i])
                      \/ Raised(p, i)
        /\ FailedIds(p) \subseteq {Records[p][i] : i \in DOMAIN Records[p]}
        /\ batchItemFailures[p] = <<>>
              <=> \A i \in DOMAIN Records[p] : Applied1(p, i)

\* the handler returned after a batch of two with one id reported failed
C6_Witness ==
    \E p \in Procs :
        /\ pc[p] = "done"
        /\ Len(Records[p]) = 2
        /\ Len(batchItemFailures[p]) = 1

\* the handler returned an empty response for the empty batch
C6_EmptyBatch ==
    \E p \in Procs : pc[p] = "done" /\ Records[p] = <<>> /\ batchItemFailures[p] = <<>>

\* C7: applyTip is called exactly once for each record taken up whose body
\* parses and satisfies the TipEvent contract and never for any other record;
\* such a record is marked failed, and no command for it reaches the store:
\* every command in flight carries a non-empty driver id and a positive amount.
C7_ApplyTipOnlyForValidRecords ==
    /\ \A p \in Procs : \A i \in DOMAIN Records[p] :
          (i < idx[p] \/ (i = idx[p] /\ pc[p] = "await")) =>
              IF WellFormed(Records[p][i])
              THEN Cardinality(CallsFor(p, i)) = 1
              ELSE CallsFor(p, i) = {} /\ Records[p][i] \in FailedIds(p)
    /\ \A p \in Procs : \A j \in DOMAIN applyTipCalls[p] :
          WellFormed(Records[p][applyTipCalls[p][j].index])
    /\ \A r \in BagToSet(requests) :
          r.command.PK # "DRIVER#" /\ r.command.amount > 0

\* the handler returned after a batch holding a record that parses and
\* violates the contract next to one that was applied: one applyTip call,
\* and the record that violates the contract is the one marked failed
C7_Witness ==
    \E p \in Procs :
        /\ pc[p] = "done"
        /\ \E i, k \in DOMAIN Records[p] :
              /\ ValidationFails(Records[p][i])
              /\ batchItemFailures[p] = <<Records[p][i]>>
              /\ Applied1(p, k)
        /\ Len(applyTipCalls[p]) = 1

\* C8: when the handler returns, a record whose id is not in the failed set
\* had both its DAY# and its WEEK# increment succeed in this invocation (both
\* are in the table); a call one of whose increments failed was rejected and
\* its record is in the failed set.
C8_AckedOnlyIfBothSucceeded ==
    \A p \in Procs : pc[p] = "done" =>
        /\ \A i \in DOMAIN Records[p] :
              Records[p][i] \notin FailedIds(p) =>
                  \E j \in CallsFor(p, i) :
                      LET c == applyTipCalls[p][j]
                      IN  /\ DOMAIN c.settled = 1..2
                          /\ c.settled[1] = "ok" /\ c.settled[2] = "ok"
                          /\ \A n \in 1..2 :
                                <<c.commands[n].PK, c.commands[n].SK>> \in DOMAIN table
        /\ \A j \in DOMAIN applyTipCalls[p] :
              LET c == applyTipCalls[p][j]
              IN  (\E n \in DOMAIN c.settled : c.settled[n] = "err") =>
                      /\ c.result = "rejected"
                      /\ Records[p][c.index] \in FailedIds(p)

\* the handler returned after a call whose DAY# increment was applied and
\* whose WEEK# increment failed: the record is reported failed
C8_Witness ==
    \E p \in Procs :
        /\ pc[p] = "done"
        /\ \E j \in DOMAIN applyTipCalls[p] :
              LET c == applyTipCalls[p][j]
              IN  /\ c.settled[1] = "ok" /\ c.settled[2] = "err"
                  /\ Records[p][c.index] \in FailedIds(p)

(***************************************************************************)
(* Properties of applyTip and of the reads (checked under Spec).           *)
(***************************************************************************)
\* C9: every applyTip call issues exactly two increments, the first on
\* (event.driverId, "DAY#" + dayBucket(event.eventTime)), the second on
\* (event.driverId, "WEEK#" + weekBucket(event.eventTime)), both with the
\* event's amount and both with one and the same `now`, a clock reading taken
\* before either was sent; while the call is pending its unsettled commands
\* are the ones in flight for its instance.
C9_ApplyTipIssuesDayAndWeek ==
    \A p \in Procs : \A j \in DOMAIN applyTipCalls[p] :
        LET c == applyTipCalls[p][j]
            e == c.event
        IN  /\ Len(c.commands) = 2
            /\ c.commands[1].PK = "DRIVER#" \o e.driverId
            /\ c.commands[1].SK = "DAY#" \o dayBucket(e.eventTime)
            /\ c.commands[2].PK = "DRIVER#" \o e.driverId
            /\ c.commands[2].SK = "WEEK#" \o weekBucket(e.eventTime)
            /\ c.commands[1].amount = e.amount
            /\ c.commands[2].amount = e.amount
            /\ c.commands[1].now = c.commands[2].now
            /\ c.commands[1].now <= clock
            /\ e = TipEvent(MessageBody("msg-1").data) =>
                   /\ c.commands[1].SK = "DAY#2024-01-15"
                   /\ c.commands[2].SK = "WEEK#2024-W03"
            /\ c.result = "pending" =>
                   {r \in BagToSet(requests) : r.proc = p}
                     = {[proc |-> p, n |-> n, command |-> c.commands[n]] :
                           n \in {m \in 1..2 : c.settled[m] = "pending"}}

\* an instance has just called applyTip for the tip of msg-1 and both of its
\* commands are in flight
C9_Witness ==
    \E p \in Procs :
        /\ pc[p] = "await"
        /\ applyTipCalls[p] # <<>>
        /\ LET c == applyTipCalls[p][Len(applyTipCalls[p])]
           IN  /\ c.event = TipEvent(MessageBody("msg-1").data)
               /\ c.settled[1] = "pending" /\ c.settled[2] = "pending"
               /\ Cardinality({r \in BagToSet(requests) : r.proc = p}) = 2

\* C10: once an applyTip call has completed successfully, getDailyTotal and
\* getWeeklyTotal for the event's driver and buckets, whatever replica of the
\* table answers them, return an aggregate (not null) of that driver and key
\* whose totalAmount is at least the event's amount; for the tip of
\* 2024-01-15T10:30:00Z the keys are DAY#2024-01-15 and WEEK#2024-W03.
C10_ReadReflectsWrite ==
    \A p \in Procs : \A j \in DOMAIN applyTipCalls[p] :
        LET c       == applyTipCalls[p][j]
            e       == c.event
            day     == dayBucket(e.eventTime)
            week    == weekBucket(e.eventTime)
            dayKey  == <<"DRIVER#" \o e.driverId, "DAY#" \o day>>
            weekKey == <<"DRIVER#" \o e.driverId, "WEEK#" \o week>>
        IN  c.result = "resolved" =>
              /\ e = TipEvent(MessageBody("msg-1").data) => dayKey = DayKey /\ weekKey = WeekKey
              /\ \A replica \in Replicas(table, applied, dayKey) :
                    LET daily == getDailyTotal(replica, e.driverId, day)
                    IN  /\ daily # null
                        /\ daily.driverId = e.driverId
                        /\ daily.aggregationKey = "DAY#" \o day
                        /\ daily.totalAmount >= e.amount
              /\ \A replica \in Replicas(table, applied, weekKey) :
                    LET weekly == getWeeklyTotal(replica, e.driverId, week)
                    IN  /\ weekly # null
                        /\ weekly.driverId = e.driverId
                        /\ weekly.aggregationKey = "WEEK#" \o week
                        /\ weekly.totalAmount >= e.amount

(***************************************************************************)
(* Duplicate delivery (checked under SpecDuplicate).                       *)
(***************************************************************************)
\* the applyTip calls of instance p for the tip of msg-1 that succeeded
SucceededCalls(p) ==
    {j \in DOMAIN applyTipCalls[p] :
        /\ applyTipCalls[p][j].event = TipEvent(MessageBody("msg-1").data)
        /\ applyTipCalls[p][j].result = "resolved"}

\* C11: the tip of 5.50 delivered twice is not deduplicated.  Every increment
\* the store applies to its day bucket and to its week bucket adds 5.50, each
\* bucket holds at least k times 5.50 once k applyTip calls for the tip have
\* succeeded, and when both deliveries were applied in one batch with no
\* store error both buckets hold exactly 11.00.
C11_NoDeduplication ==
    \A p \in Procs :
        LET k == Cardinality(SucceededCalls(p))
        IN  /\ \A key \in {DayKey, WeekKey} :
                  /\ key \in DOMAIN applied =>
                        /\ key \in DOMAIN table
                        /\ table[key].totalAmount = 550 * applied[key].count
                  /\ k >= 1 =>
                        /\ key \in DOMAIN table
                        /\ table[key].totalAmount >= 550 * k
            /\ (pc[p] = "done" /\ Len(Records[p]) = 2 /\ errors = 0) =>
                  /\ k = 2
                  /\ table[DayKey].totalAmount = 1100
                  /\ table[WeekKey].totalAmount = 1100

\* both deliveries of the tip were applied successfully: 11.00 in both buckets
C11_Witness ==
    /\ Cardinality(SucceededCalls("p1")) = 2
    /\ table[DayKey].totalAmount = 1100
    /\ table[WeekKey].totalAmount = 1100

(***************************************************************************)
(* Properties of the drivers API (checked under SpecQuery).                *)
(***************************************************************************)
DriverExists(id) == \E d \in Drivers : d.id = id

\* the request names a driver id (a path parameter that is there and not empty)
HasId == "id" \in DOMAIN http.event.pathParameters /\ http.event.pathParameters.id # ""

\* the request being served is one of `handler` for an id no driver has
ForUnknownDriver(handler) ==
    /\ http.handler = handler
    /\ HasId
    /\ ~DriverExists(http.event.pathParameters.id)

\* C12: while and after getDriverTips serves an id the driver repository does
\* not know, no read of the tip aggregates is issued, and the call ends with
\* DriverNotFoundError (or with the store's error when findById itself
\* failed); tip aggregates are only ever read for a driver that exists.
C12_UnknownDriverNoTipReads ==
    /\ ForUnknownDriver("handleGetDriverTips") =>
          /\ http.tipReads = <<>>
          /\ http.pc \in {"findById", "responded"}
          /\ http.findByIdCalls = <<http.event.pathParameters.id>>
          /\ http.pc = "responded" => http.thrown \in {"DriverNotFoundError", "Error"}
          /\ (http.pc = "responded" /\ errors = 0) => http.thrown = "DriverNotFoundError"
    /\ http.tipReads # <<>> =>
          \A n \in DOMAIN http.tipReads : DriverExists(http.tipReads[n].driverId)

\* getDriverTips for "i-do-not-exist" has failed with DriverNotFoundError
C12_Witness ==
    /\ ForUnknownDriver("handleGetDriverTips")
    /\ http.pc = "responded"
    /\ http.thrown = "DriverNotFoundError"
    /\ http.findByIdCalls = <<"i-do-not-exist">>
    /\ http.tipReads = <<>>

\* C13: for an existing driver getDriverTips looks the driver up once, then
\* issues exactly two reads: getDailyTotal with the day bucket and
\* getWeeklyTotal with the week bucket of a reading of the clock taken during
\* the call; when both reads succeed the call succeeds and returns exactly
\* what they returned, each either null or the aggregate of that driver and
\* bucket; with no tip in the table both are null.
C13_GetDriverTipsReads ==
    (http.handler = "handleGetDriverTips" /\ HasId
        /\ DriverExists(http.event.pathParameters.id)) =>
        LET id == http.event.pathParameters.id
        IN  /\ http.findByIdCalls = <<id>>
            /\ (http.pc = "responded" /\ http.thrown = "") => http.tipReads # <<>>
            /\ http.tipReads # <<>> =>
                  /\ Len(http.tipReads) = 2 /\ Len(http.nows) = 2
                  /\ ClockStart <= http.nows[1] /\ http.nows[1] <= http.nows[2]
                  /\ http.nows[2] <= clock
                  /\ http.tipReads[1] = [op |-> "getDailyTotal", driverId |-> id,
                                         bucket |-> ISODate(DateOf(http.nows[1]))]
                  /\ http.tipReads[1].bucket =
                         (IF http.nows[1] = ClockStart THEN "2024-01-15" ELSE "2024-01-16")
                  /\ http.tipReads[2] = [op |-> "getWeeklyTotal", driverId |-> id,
                                         bucket |-> "2024-W03"]
                  /\ \A n \in 1..2 :
                        http.results[n] # null =>
                            /\ http.settled[n] = "ok"
                            /\ http.results[n].driverId = id
                            /\ http.results[n].aggregationKey =
                                   (IF n = 1 THEN "DAY#" ELSE "WEEK#")
                                       \o http.tipReads[n].bucket
                            /\ http.results[n].totalAmount > 0
                  /\ (\A n \in 1..2 : http.settled[n] = "ok") =>
                        /\ http.pc = "responded"
                        /\ http.response =
                               [statusCode |-> 200,
                                body |-> [data |-> [daily  |-> http.results[1],
                                                    weekly |-> http.results[2]]]]
                        /\ table = EmptyTable =>
                               http.results[1] = null /\ http.results[2] = null

\* getDriverTips has returned for driver d1: nothing in today's bucket, 5.50
\* in the week's
C13_Witness ==
    /\ http.handler = "handleGetDriverTips"
    /\ http.pc = "responded"
    /\ http.response.statusCode = 200
    /\ http.response.body.data.daily = null
    /\ http.response.body.data.weekly # null
    /\ http.response.body.data.weekly.totalAmount = 550

\* C14: handleGetDriverTips responds 404 when the driver does not exist and
\* 200 when the driver exists and both reads succeed.
C14_TipsStatusCodes ==
    (http.handler = "handleGetDriverTips" /\ http.pc = "responded") =>
        /\ http.thrown = "DriverNotFoundError" => http.response.statusCode = 404
        /\ http.thrown = "" => http.response.statusCode = 200

\* C15: when findById gives no driver for the requested id, handleGetDriver
\* has called findById once, with exactly that id, and responds 404.
C15_GetDriverNotFound ==
    (ForUnknownDriver("handleGetDriver") /\ http.pc = "responded"
        /\ http.thrown # "Error") =>
        /\ http.findByIdCalls = <<http.event.pathParameters.id>>
        /\ http.response.statusCode = 404
        /\ http.thrown = "DriverNotFoundError"

\* GET /drivers/i-do-not-exist was answered 404
C15_Witness ==
    /\ ForUnknownDriver("handleGetDriver")
    /\ http.pc = "responded"
    /\ http.findByIdCalls = <<"i-do-not-exist">>
    /\ http.response.statusCode = 404

\* C16: a request to handleGetDriver whose id path parameter is missing or
\* empty is answered 400 at once, and findById is never called for it.
C16_GetDriverBadRequest ==
    (http.handler = "handleGetDriver" /\ ~HasId) =>
        /\ http.pc = "responded"
        /\ http.response.statusCode = 400
        /\ http.findByIdCalls = <<>>

\* GET /drivers/ with an empty id was answered 400
C16_Witness ==
    /\ http.handler = "handleGetDriver"
    /\ http.event = [pathParameters |-> [id |-> ""]]
    /\ http.pc = "responded"
    /\ http.response.statusCode = 400
    /\ http.findByIdCalls = <<>>

\* GET /drivers/ with no path parameter at all was answered 400
C16_MissingParameter ==
    /\ http.handler = "handleGetDriver"
    /\ http.event = [pathParameters |-> NoPathParameters]
    /\ http.pc = "responded"
    /\ http.response.statusCode = 400

(***************************************************************************)
(* Properties of the time buckets (checked under SpecBuckets).  What a     *)
(* bucket should be is worked out from the fields of the ISO text of the   *)
(* instant.                                                                *)
(***************************************************************************)
\* the ISO text of the instant a text denotes: 2024-02-30 is 2024-03-01
Canonical(iso) == toISOString(NewDate(iso))

TwoDigits(n) == IF n < 10 THEN "0" \o ToString(n) ELSE ToString(n)

LeapYear(y) == (y % 4 = 0 /\ y % 100 # 0) \/ y % 400 = 0

\* days from January 1st of its year to the date: 0 for January 1st
DaysSinceFirstDay(iso) ==
    <<0, 31, 59, 90, 120, 151, 181, 212, 243, 273, 304, 334>>[iso.month]
        + (IF LeapYear(iso.year) /\ iso.month > 2 THEN 1 ELSE 0)
        + iso.day - 1

\* the day of the week of the date, 0 = Sunday
Weekday(iso) ==
    LET y == IF iso.month < 3 THEN iso.year - 1 ELSE iso.year
    IN  (y + y \div 4 - y \div 100 + y \div 400
           + <<0, 3, 2, 5, 0, 3, 5, 1, 4, 6, 2, 4>>[iso.month] + iso.day) % 7

\* ceil(n / 7) for n >= 1
CeilOfSevenths(n) == CHOOSE w \in 1..60 : 7 * (w - 1) < n /\ n <= 7 * w

\* C17: for every timestamp t, weekBucket(t) is YYYY-Www with YYYY the UTC
\* year of t and ww, zero padded, ceil((daysSinceFirstDay + weekdayOffset
\* + 1) / 7), where daysSinceFirstDay counts the whole days since January 1st
\* of t's year and weekdayOffset is the UTC day of the week of t itself
\* (0 = Sunday).  The year is compared as the number weekBucket prints,
\* without padding.
C17_WeekBucketFormula ==
    \A i \in DOMAIN bucket.weeks :
        LET t == Canonical(bucket.dates[i])
        IN  bucket.weeks[i] =
                ToString(t.year) \o "-W"
                    \o TwoDigits(CeilOfSevenths(DaysSinceFirstDay(t) + Weekday(t) + 1))

\* C18: for every valid timestamp t, dayBucket(t) is the UTC calendar date of
\* t as YYYY-MM-DD (the year in at least four digits), and two dates get the
\* same day bucket exactly when they fall on the same UTC calendar day (the
\* second date is `gap` seconds after the first: the same day exactly when
\* the gap does not reach past the first date's midnight).
C18_DayBucketIsUtcDate ==
    /\ \A i \in DOMAIN bucket.days :
          LET t == Canonical(bucket.dates[i])
          IN  bucket.days[i] =
                  PadStart(t.year, 4) \o "-" \o TwoDigits(t.month) \o "-" \o TwoDigits(t.day)
    /\ Len(bucket.days) = 2 =>
          LET a == Canonical(bucket.dates[1])
              b == Canonical(bucket.dates[2])
          IN  /\ bucket.days[1] = bucket.days[2]
                    <=> (a.year = b.year /\ a.month = b.month /\ a.day = b.day)
              /\ bucket.days[1] = bucket.days[2]
                    <=> \E gap \in BucketGaps :
                           /\ NewDate(b) = AddSeconds(NewDate(a), gap)
                           /\ a.hour * 3600 + a.minute * 60 + a.second + gap < 86400

(***************************************************************************)
(* Life cycle of an aggregate row (checked under SpecQuery).               *)
(***************************************************************************)
\* the aggregation keys the tips of the model fall under
AggregationKeys == {"DAY#2024-01-15", "DAY#2024-01-16", "WEEK#2024-W03"}

\* get, whatever replica of the table answers it, gives null for a key
\* exactly while no increment was applied to it
AbsentUntilApplied(tbl, log) ==
    \A key \in AggregationKeys :
        \A replica \in Replicas(tbl, log, <<"DRIVER#d1", key>>) :
            getAggregate(replica, "d1", key) = null
                <=> <<"DRIVER#d1", key>> \notin DOMAIN log

\* C19: a row is stored under its own (PK, SK), one row per key; get gives
\* absent for a key exactly until the first increment on the key is applied;
\* a row comes into being only by an increment in flight for its key, with
\* that increment's amount as its totalAmount; and no step removes a row.
C19_RowLifecycle ==
    [][ /\ AbsentUntilApplied(table, applied)
        /\ AbsentUntilApplied(table', applied')
        /\ \A k \in DOMAIN table' : table'[k].PK = k[1] /\ table'[k].SK = k[2]
        /\ DOMAIN table \subseteq DOMAIN table'
        /\ \A k \in DOMAIN table' \ DOMAIN table :
              /\ applied'[k].count = 1
              /\ \E r \in BagToSet(requests) :
                    /\ <<r.command.PK, r.command.SK>> = k
                    /\ table'[k].totalAmount = r.command.amount
                    /\ requests' = requests (-) SetToBag({r})
      ]_vars

(***************************************************************************)
(* No silent drops (checked under SpecRedelivery).                         *)
(***************************************************************************)
\* the handler has returned and message m of its batch is not reported failed
Acknowledged(m) ==
    \E p \in Procs :
        /\ pc[p] = "done"
        /\ \E i \in DOMAIN Records[p] : Records[p][i] = m
        /\ \A j \in DOMAIN batchItemFailures[p] : batchItemFailures[p][j] # m

\* the amount of the tip of msg-1 is in its day bucket and in its week bucket
AmountAdded ==
    /\ DayKey \in DOMAIN table /\ table[DayKey].totalAmount >= 550
    /\ WeekKey \in DOMAIN table /\ table[WeekKey].totalAmount >= 550

\* C20: no silent drops: if the queue redelivers every id returned in
\* batchItemFailures and store failures are transient, then the valid tip of
\* msg-1 is eventually acknowledged, and whenever it is acknowledged its
\* amount has been added at least once to both its day bucket and its week
\* bucket.
C20_NoSilentDrops ==
    (QueueRedelivers /\ StoreFailuresTransient) =>
        /\ <>Acknowledged("msg-1")
        /\ [](Acknowledged("msg-1") => AmountAdded)

\* the tip was reported failed after a store failure, delivered again and
\* is now acknowledged with its amount in both buckets
C20_Witness ==
    /\ errors >= 1
    /\ Acknowledged("msg-1")
    /\ AmountAdded

(***************************************************************************)
(* Completion of applyTip (checked under SpecDuplicate).                   *)
(***************************************************************************)
\* a command of the calls instance p made for its batch is still in flight
InFlightOf(p) ==
    {r \in BagToSet(requests) :
        \E c \in DOMAIN applyTipCalls[p] :
            \E n \in DOMAIN applyTipCalls[p][c].commands :
                applyTipCalls[p][c].commands[n] = r.command}

\* C21: an applyTip call that has completed (returned or raised) had both its
\* increments settled when it completed, and when the handler has returned
\* its batch response no increment issued for the batch is still in flight.
C21_CompletesAfterBothSettled ==
    \A p \in instances :
        /\ \A c \in DOMAIN applyTipCalls[p] :
              applyTipCalls[p][c].result # "pending"
                  => \A n \in DOMAIN applyTipCalls[p][c].settled :
                         applyTipCalls[p][c].settled[n] # "pending"
        /\ pc[p] = "done" => InFlightOf(p) = {}

(***************************************************************************)
(* The instant of getDriverTips (checked under SpecMidnight).              *)
(***************************************************************************)
\* getDriverTips has issued its two reads
TipReadsIssued ==
    /\ http.handler = "handleGetDriverTips"
    /\ Len(http.tipReads) = 2

\* C22: the day key and the week key of the two reads of a getDriverTips
\* call come from one instant: some instant t of the call has
\* day = dayBucket(t) and week = weekBucket(t), also when the clock
\* advances across UTC midnight while the call runs.
C22_OneInstantForDayAndWeek ==
    TipReadsIssued =>
        \E t \in http.nows[1]..http.nows[2] :
            /\ http.tipReads[1].bucket = dayBucket(toISOString(DateOf(t)))
            /\ http.tipReads[2].bucket = weekBucket(toISOString(DateOf(t)))

(***************************************************************************)
(* Reads have no effect on the store (checked under SpecQuery).            *)
(***************************************************************************)
\* a step of the API: a request arrives, findById settles, getDriverTips
\* issues its reads, a read settles
ApiStep == http' # http

\* C23: getDailyTotal, getWeeklyTotal and getDriverTips leave the aggregate
\* store unchanged: a step of a read creates no row and changes no
\* totalAmount, createdAt or updatedAt, whether the key read is present or
\* absent, and sends no write to the store.
C23_ReadsLeaveStoreUnchanged ==
    [][ApiStep => /\ table' = table
                  /\ applied' = applied
                  /\ requests' = requests]_vars

\* getDriverTips has answered with the day row it found and null for the
\* week key it did not find, and the week key is still absent
C23_Witness ==
    /\ TipReadsIssued
    /\ http.pc = "responded"
    /\ http.response.statusCode = 200
    /\ http.results[1] # null
    /\ http.results[1].totalAmount = table[DayKey].totalAmount
    /\ http.results[2] = null
    /\ WeekKey \notin DOMAIN table

(***************************************************************************)
(* Frame of an increment (checked under SpecTwoDrivers).                   *)
(***************************************************************************)
\* the rows a step creates or changes
ChangedRows ==
    {k \in DOMAIN table' : k \notin DOMAIN table \/ table'[k] # table[k]}

\* the two keys applyTip(event) writes to
TipKeys(event) ==
    { <<"DRIVER#" \o event.driverId, "DAY#" \o dayBucket(event.eventTime)>>,
      <<"DRIVER#" \o event.driverId, "WEEK#" \o weekBucket(event.eventTime)>> }

\* C24: an increment on (driverId, aggregationKey) changes that one row and
\* no other: every row of another driver or another aggregation key keeps
\* its totalAmount, createdAt and updatedAt; the row changed is one of the
\* two rows (event.driverId, DAY#day), (event.driverId, WEEK#week) of a tip
\* event; and a failed increment changes nothing.
C24_IncrementFrame ==
    [][ /\ DOMAIN table \subseteq DOMAIN table'
        /\ ChangedRows # {} =>
              \E r \in BagToSet(requests) :
                  /\ requests' = requests (-) SetToBag({r})
                  /\ ChangedRows = {<<r.command.PK, r.command.SK>>}
                  /\ \E m \in {"msg-1", "msg-8"} :
                        /\ r.command.amount = TipEvent(MessageBody(m).data).amount
                        /\ ChangedRows \subseteq TipKeys(TipEvent(MessageBody(m).data))
        /\ errors' # errors => table' = table
      ]_vars

\* the day rows of the two drivers and the week row of the first hold their
\* tips, and the week increment of the second has failed and left no row
C24_Witness ==
    /\ DOMAIN table = {DayKey, WeekKey, <<"DRIVER#d2", "DAY#2024-01-15">>}
    /\ table[DayKey].totalAmount = 550
    /\ table[WeekKey].totalAmount = 550
    /\ table[<<"DRIVER#d2", "DAY#2024-01-15">>].totalAmount = 700
    /\ errors = 1
    /\ requests = EmptyBag

(***************************************************************************)
(* Increments commute on the total (checked under Spec).                   *)
(***************************************************************************)
\* the totals of a table, key by key
Totals(tbl) == [k \in DOMAIN tbl |-> tbl[k].totalAmount]

\* every tip was delivered once, each of its increments was applied and
\* nothing is in flight
AllAppliedOnce ==
    /\ errors = 0
    /\ queue = {}
    /\ requests = EmptyBag
    /\ \A p \in Procs : pc[p] # "await"

\* C25: the order in which the store applies increments does not show in the
\* totals: two increments in flight give the same totalAmount in every
\* bucket whichever is applied first, and once the increments of the two
\* tips are all applied, by whatever interleaving of the day and week
\* increments of the concurrent batches, every bucket holds the same total.
C25_IncrementsCommute ==
    /\ \A r1, r2 \in BagToSet(requests) :
          Totals(UpdateItem(UpdateItem(table, r1.command), r2.command))
              = Totals(UpdateItem(UpdateItem(table, r2.command), r1.command))
    /\ AllAppliedOnce =>
          Totals(table) = (DayKey :> 550
                           @@ <<"DRIVER#d1", "DAY#2024-01-16">> :> 1000
                           @@ WeekKey :> 1550)

\* both tips are applied and the week row was created by the increment that
\* carries the later `now`: the order shows in the timestamps, not in the total
C25_Witness ==
    /\ AllAppliedOnce
    /\ table[WeekKey].totalAmount = 1550
    /\ table[WeekKey].createdAt > table[WeekKey].updatedAt

(***************************************************************************)
(* Day totals against week totals (checked under SpecDuplicate).           *)
(***************************************************************************)
\* no applyTip call is in flight: no handler awaits one and the store holds
\* no command that is not settled
Quiescent ==
    /\ \A p \in Procs : pc[p] # "await"
    /\ requests = EmptyBag

\* the tip events among the messages
TipEvents ==
    {TipEvent(MessageBody(m).data) : m \in {n \in MessageIds : WellFormed(n)}}

DayKeysOf(d) ==
    {<<"DRIVER#" \o d, "DAY#" \o dayBucket(e.eventTime)>> : e \in TipEvents}

WeekKeysOf(d) ==
    {<<"DRIVER#" \o d, "WEEK#" \o weekBucket(e.eventTime)>> : e \in TipEvents}

\* the sum of totalAmount over the rows of tbl under the keys of `keys`
RECURSIVE SumOfTotals(_, _)
SumOfTotals(tbl, keys) ==
    IF keys \cap DOMAIN tbl = {}
    THEN 0
    ELSE LET k == CHOOSE x \in keys \cap DOMAIN tbl : TRUE
         IN  tbl[k].totalAmount + SumOfTotals(tbl, keys \ {k})

\* C26: in every quiescent state the DAY# rows of a driver add up to the same
\* amount as its WEEK# rows, also after failed increments and events
\* delivered more than once.
C26_DaySumEqualsWeekSum ==
    Quiescent =>
        \A d \in DriverIds :
            SumOfTotals(table, DayKeysOf(d)) = SumOfTotals(table, WeekKeysOf(d))

(***************************************************************************)
(* The week total against the day total (checked under SpecQuery).         *)
(***************************************************************************)
\* the totalAmount under a key, nothing when the key has no row
TotalOf(tbl, key) == IF key \in DOMAIN tbl THEN tbl[key].totalAmount ELSE 0

\* C27: in every quiescent state, for every driver and every UTC day D, the
\* week bucket weekBucket assigns to D holds at least the total of the day
\* bucket of D.
C27_WeekAtLeastDay ==
    Quiescent =>
        \A e \in TipEvents :
            TotalOf(table, <<"DRIVER#" \o e.driverId,
                             "WEEK#" \o weekBucket(e.eventTime)>>)
                >= TotalOf(table, <<"DRIVER#" \o e.driverId,
                                    "DAY#" \o dayBucket(e.eventTime)>>)

(***************************************************************************)
(* Shape of batchItemFailures (checked under SpecLive).                    *)
(***************************************************************************)
\* the position of message m in the batch of instance p
PositionIn(p, m) == CHOOSE i \in DOMAIN Records[p] : Records[p][i] = m

\* C28: for a batch of pairwise distinct messageIds, batchItemFailures holds
\* each messageId at most once, each entry is the id of a record of the
\* batch that the loop has already gone past, and the entries are in the
\* order of their records in the batch.
C28_FailuresInBatchOrder ==
    \A p \in instances :
        Injective(Records[p]) =>
            LET failures == batchItemFailures[p]
            IN  /\ Injective(failures)
                /\ \A j \in DOMAIN failures :
                      /\ \E i \in DOMAIN Records[p] : Records[p][i] = failures[j]
                      /\ PositionIn(p, failures[j]) < idx[p]
                /\ \A j, k \in DOMAIN failures :
                      j < k => PositionIn(p, failures[j]) < PositionIn(p, failures[k])

\* the batch [msg-1, msg-3]: the tip failed in the store, the second record
\* did not parse, and the handler has returned both ids in batch order
C28_Witness ==
    /\ pc["p1"] = "done"
    /\ Records["p1"] = <<"msg-1", "msg-3">>
    /\ batchItemFailures["p1"] = <<"msg-1", "msg-3">>

(***************************************************************************)
(* The week number (checked under SpecBuckets).                            *)
(***************************************************************************)
\* the week numbers weekBucket computes for the dates of BucketYears: from
\* 0 to 99, and for the years 99 and 100, counted from January 1st of 1999,
\* some 99,100 weeks below zero
WeekNumbers == (0..99) \cup (-99200..-99000)

\* the number ww read back from a week bucket YYYY-Www
WeekNumberOf(text) ==
    CHOOSE w \in WeekNumbers :
        \E y \in BucketYears \cup {y + 1 : y \in BucketYears} :
            text = ToString(y) \o "-W" \o PadStart2(w)

\* C29: weekBucket is monotonic within a year: of two dates of the same UTC
\* year, the later one does not get the smaller week number.
C29_WeekMonotonicWithinYear ==
    (/\ Len(bucket.weeks) = 2
     /\ Canonical(bucket.dates[1]).year = Canonical(bucket.dates[2]).year) =>
        /\ \E gap \in BucketGaps :
              NewDate(bucket.dates[2]) = AddSeconds(NewDate(bucket.dates[1]), gap)
        /\ WeekNumberOf(bucket.weeks[1]) <= WeekNumberOf(bucket.weeks[2])

\* C30: the week number weekBucket computes lies between 1 and 53, in leap
\* years and in common years, so the week part of the key is two digits and
\* never 00.
C30_WeekNumberInRange ==
    \A i \in DOMAIN bucket.weeks :
        \E w \in 1..53 :
            bucket.weeks[i] =
                ToString(Canonical(bucket.dates[i]).year) \o "-W" \o PadStart2(w)
====
